---- MODULE Spec2Model ----
(***************************************************************************)
(* Per-frame simulation core of the pursuit game (src/src/main.cpp,        *)
(* GameState.h, Entity.h, Utils.h): flashlight resource, killer AI state   *)
(* machine and motion, survival timer, collisions, jumpscare and restart   *)
(* gate, driven by the gameplay branch of main's loop.                     *)
(*                                                                         *)
(* Representation of the C++ floats:                                       *)
(*   time      integer units, UnitsPerSecond units to one second           *)
(*   position  integer pixels                                              *)
(*   unit vectors (NormalizeSafe)   integers scaled by DirScale            *)
(*   killer speed / velocity        integers scaled by SpeedScale (px/s)   *)
(*   speed multipliers              integers scaled by MultScale           *)
(*   powf(1.05, t)                  integers scaled by PowScale            *)
(*   zoom factors                   integers scaled by ZoomScale           *)
(* Drawing and camera following (UpdateCamera) touch only the camera,      *)
(* which is not part of the state modelled here.  Spec is the program;     *)
(* SpecDecoys runs UpdateNPCs on its own on the store of a started round,  *)
(* with the decoys' random draws varied; SpecSkipped runs the update stage *)
(* on rounds whose player or killer is missing or inactive.                *)
(***************************************************************************)
EXTENDS Integers, Sequences, FiniteSets, TLC

VARIABLES state, frame

vars == <<state, frame>>

-----------------------------------------------------------------------------
(* Resolutions of the fixed-point representation *)

UnitsPerSecond == 2
DirScale == 1000
SpeedScale == 100
MultScale == 10
PowScale == 10000
ZoomScale == 100
RandomRange == 10000

(* Bounds of the model *)

\* frames of main's loop in one run of the program
MaxFrames == 6
\* GetFrameTime of an ordinary frame and of a frame after a long stall
ShortFrame == 2
LongFrame == 20
\* decoys spawned by InitGame (50 in GameState.h; a decoy's update reads no
\* other entity)
NPC_COUNT == 2
\* calls of UpdateNPCs in a run of the decoys on their own
MaxDecoyTicks == 4
\* ticks of a round that has lost its player or its killer
MaxSkippedTicks == 2

-----------------------------------------------------------------------------
(* Game constants, GameState.h *)

MAP_WIDTH == 2000
MAP_HEIGHT == 2000
PLAYER_SPEED == 200
NPC_SPEED == 50
NPC_WANDER_MIN_TIME == 1 * UnitsPerSecond
NPC_WANDER_MAX_TIME == 3 * UnitsPerSecond
NPC_MARGIN == 50
SPAWN_MARGIN == 50
KILLER_BASE_SPEED == 70
KILLER_MIN_SPAWN_DISTANCE == 400
EXIT_DOOR_WIDTH == 60
EXIT_DOOR_HEIGHT == 100
EXIT_DOOR_MIN_SPAWN_DISTANCE == 800
GAME_MAX_TIME == 30 * UnitsPerSecond
FLASHLIGHT_RADIUS == 200
FLASHLIGHT_MIN_RADIUS == 80
FLASHLIGHT_MAX_DURATION == 3 * UnitsPerSecond
FLASHLIGHT_COOLDOWN == 3 * UnitsPerSecond
KILLER_HUNT_SPEED == 3 * MultScale
KILLER_SEARCH_SPEED == (15 * MultScale) \div 10
KILLER_NORMAL_SPEED == 1 * MultScale
KILLER_SEARCH_ARRIVAL_THRESHOLD == 20
PLAYER_COLLISION_RADIUS == 15
KILLER_COLLISION_RADIUS == 15
JUMPSCARE_DURATION == (15 * UnitsPerSecond) \div 10
JUMPSCARE_ZOOM_TARGET == 3 * ZoomScale
RESTART_DELAY == 2 * UnitsPerSecond
GROWTH_PERCENT == 105

ENTITY_PLAYER == "ENTITY_PLAYER"
ENTITY_NPC == "ENTITY_NPC"
ENTITY_KILLER == "ENTITY_KILLER"
ENTITY_EXIT_DOOR == "ENTITY_EXIT_DOOR"

KILLER_STATE_NORMAL == "NORMAL"
KILLER_STATE_HUNT == "HUNT"
KILLER_STATE_SEARCH == "SEARCH"

SCREEN_TITLE == "SCREEN_TITLE"
SCREEN_GAMEPLAY == "SCREEN_GAMEPLAY"

nullptr == 0

-----------------------------------------------------------------------------
(* Arithmetic helpers *)

Vec(x, y) == [x |-> x, y |-> y]

\* a / b rounded to the nearest integer, symmetric in the sign of a (b > 0)
RoundDiv(a, b) ==
    IF a >= 0 THEN (2 * a + b) \div (2 * b)
    ELSE -((2 * (-a) + b) \div (2 * b))

RECURSIVE SqrtSearch(_, _, _)
SqrtSearch(n, lo, hi) ==
    IF lo >= hi THEN lo
    ELSE LET mid == (lo + hi + 1) \div 2
         IN IF mid * mid <= n THEN SqrtSearch(n, mid, hi)
            ELSE SqrtSearch(n, lo, mid - 1)

\* floor(sqrt(n)), 0 <= n < 2^31
ISqrt(n) == SqrtSearch(n, 0, 46340)

Clamp(value, min, max) ==
    IF value < min THEN min ELSE IF value > max THEN max ELSE value

\* Lerp(start, end, amount) with amount = num / den
Lerp(start, end, num, den) == start + RoundDiv((end - start) * num, den)

-----------------------------------------------------------------------------
(* Utils.h *)

DistanceSquared(a, b) ==
    LET dx == b.x - a.x
        dy == b.y - a.y
    IN dx * dx + dy * dy

\* floor of the distance: for an integer threshold t, Distance(a, b) < t
\* exactly when the real distance is below t
Distance(a, b) == ISqrt(DistanceSquared(a, b))

NormalizeSafe(v) ==
    LET length10 == ISqrt((v.x * v.x + v.y * v.y) * 100)
    IN IF length10 > 0
       THEN Vec(RoundDiv(v.x * DirScale * 10, length10),
                RoundDiv(v.y * DirScale * 10, length10))
       ELSE Vec(0, 0)

DirectionTo(from, to) == NormalizeSafe(Vec(to.x - from.x, to.y - from.y))

ClampPosition(pos, minX, minY, maxX, maxY) ==
    Vec(Clamp(pos.x, minX, maxX), Clamp(pos.y, minY, maxY))

\* r is the value GetRandomValue(0, 10000) returned
RandomFloat(min, max, r) == min + RoundDiv(r * (max - min), RandomRange)

RandomPosition(minX, minY, maxX, maxY, rx, ry) ==
    Vec(RandomFloat(minX, maxX, rx), RandomFloat(minY, maxY, ry))

\* cosf and sinf of 2 * PI * r / RandomRange, scaled by DirScale, at the
\* eight compass points (r a multiple of RandomRange / 8)
CompassCos == << 1000, 707, 0, -707, -1000, -707, 0, 707, 1000 >>
CompassSin == << 0, 707, 1000, 707, 0, -707, -1000, -707, 0 >>

RandomDirection(r) ==
    LET point == (8 * r) \div RandomRange
    IN Vec(CompassCos[point + 1], CompassSin[point + 1])

\* speed in pixels per second, the velocity scaled by SpeedScale
RandomVelocity(speed, r) ==
    LET dir == RandomDirection(r)
    IN Vec(RoundDiv(dir.x * speed * SpeedScale, DirScale),
           RoundDiv(dir.y * speed * SpeedScale, DirScale))

\* edge is the value GetRandomValue(0, 3) returned
RandomEdgePosition(mapWidth, mapHeight, objectWidth, objectHeight, edge, r) ==
    CASE edge = 0 ->
           Vec(RandomFloat(objectWidth \div 2, mapWidth - objectWidth \div 2, r),
               objectHeight \div 2)
      [] edge = 1 ->
           Vec(mapWidth - objectWidth \div 2,
               RandomFloat(objectHeight \div 2, mapHeight - objectHeight \div 2, r))
      [] edge = 2 ->
           Vec(RandomFloat(objectWidth \div 2, mapWidth - objectWidth \div 2, r),
               mapHeight - objectHeight \div 2)
      [] OTHER ->
           Vec(objectWidth \div 2,
               RandomFloat(objectHeight \div 2, mapHeight - objectHeight \div 2, r))

\* raylib: the circles overlap when the centres are within radius1 + radius2
CheckCollisionCircles(center1, radius1, center2, radius2) ==
    DistanceSquared(center1, center2) <= (radius1 + radius2) * (radius1 + radius2)

\* raylib: rec = [x, y, width, height]
CheckCollisionPointRec(point, rec) ==
    /\ point.x >= rec.x
    /\ point.x < rec.x + rec.width
    /\ point.y >= rec.y
    /\ point.y < rec.y + rec.height

-----------------------------------------------------------------------------
(* Entity.h *)

CreateEntity(position, entityType) ==
    [pos |-> position,
     velocity |-> Vec(0, 0),
     type |-> entityType,
     active |-> TRUE,
     wanderTimer |-> 0]

-----------------------------------------------------------------------------
(* GameState.h *)

\* currentScreen and the SCREEN_ and KILLER_STATE_ enumerations are used by
\* main.cpp but declared in none of the files at hand; the screen starts as
\* the title screen, from which main's loop calls InitGame when Play is
\* pressed (main.cpp, comments after the call of CreateGameState)
CreateGameState ==
    [timer |-> GAME_MAX_TIME,
     gameOver |-> FALSE,
     gameWon |-> FALSE,
     entities |-> << >>,
     playerIndex |-> -1,
     killerIndex |-> -1,
     exitDoorIndex |-> -1,
     flashlightOn |-> FALSE,
     flashlightUsageTime |-> 0,
     flashlightCooldownTime |-> 0,
     flashlightAvailable |-> TRUE,
     killerAI |-> [state |-> KILLER_STATE_NORMAL,
                   lastKnownPlayerPos |-> Vec(0, 0),
                   flashlightOnTime |-> 0,
                   wasFlashlightOn |-> FALSE],
     jumpscareActive |-> FALSE,
     jumpscareTimer |-> 0,
     jumpscareZoom |-> 1 * ZoomScale,
     restartDelayTimer |-> 0,
     canRestart |-> FALSE,
     currentScreen |-> SCREEN_TITLE]

\* A pointer into state.entities is the 1-based position of the entity in
\* the sequence (index + 1); nullptr is 0.
GetPlayer(s) ==
    IF s.playerIndex >= 0 /\ s.playerIndex < Len(s.entities)
    THEN s.playerIndex + 1 ELSE nullptr

GetKiller(s) ==
    IF s.killerIndex >= 0 /\ s.killerIndex < Len(s.entities)
    THEN s.killerIndex + 1 ELSE nullptr

GetExitDoor(s) ==
    IF s.exitDoorIndex >= 0 /\ s.exitDoorIndex < Len(s.entities)
    THEN s.exitDoorIndex + 1 ELSE nullptr

-----------------------------------------------------------------------------
(* main.cpp: round initialisation *)

PlayerSpawnPos == Vec(MAP_WIDTH \div 2, MAP_HEIGHT \div 2)

KillerSpawnPos(rx, ry) ==
    RandomPosition(SPAWN_MARGIN, SPAWN_MARGIN,
                   MAP_WIDTH - SPAWN_MARGIN, MAP_HEIGHT - SPAWN_MARGIN, rx, ry)

\* the do-while of a killer that is placed by the first draw, whatever it is
KillerSpawnAccepted_FirstDraw(killerPos) == TRUE

\* the do-while resamples while Distance(killerPos, playerPos) < minimum
KillerSpawnAccepted(killerPos) ==
    ~(Distance(killerPos, PlayerSpawnPos) < KILLER_MIN_SPAWN_DISTANCE)

ExitSpawnPos(edge, r) ==
    RandomEdgePosition(MAP_WIDTH, MAP_HEIGHT, EXIT_DOOR_WIDTH, EXIT_DOOR_HEIGHT,
                       edge, r)

ExitSpawnAccepted(exitPos) ==
    ~(Distance(exitPos, PlayerSpawnPos) < EXIT_DOOR_MIN_SPAWN_DISTANCE)

\* values GetRandomValue(0, 10000) returns for the position, the wander
\* timer and the direction of the i-th decoy InitGame spawns
NpcSpawnRolls(i) ==
    IF i % 2 = 1
    THEN [x |-> 0, y |-> 0, timer |-> 0, angle |-> 6250]
    ELSE [x |-> 10000, y |-> 10000, timer |-> 5000, angle |-> 1250]

\* one iteration of InitGame's decoy loop
SpawnNPC(rolls) ==
    [CreateEntity(RandomPosition(NPC_MARGIN, NPC_MARGIN,
                                 MAP_WIDTH - NPC_MARGIN,
                                 MAP_HEIGHT - NPC_MARGIN, rolls.x, rolls.y),
                  ENTITY_NPC)
       EXCEPT !.wanderTimer = RandomFloat(0, NPC_WANDER_MAX_TIME, rolls.timer),
              !.velocity = RandomVelocity(NPC_SPEED, rolls.angle)]

\* InitGame that does not clear the entities of the round before
InitGame_NoClear(s, killerPos, exitPos) ==
    LET player == CreateEntity(PlayerSpawnPos, ENTITY_PLAYER)
        killer == CreateEntity(killerPos, ENTITY_KILLER)
        exitDoor == CreateEntity(exitPos, ENTITY_EXIT_DOOR)
        withPlayer == Append(s.entities, player)
        withNPCs == withPlayer
                      \o [i \in 1 .. NPC_COUNT |-> SpawnNPC(NpcSpawnRolls(i))]
        withKiller == Append(withNPCs, killer)
        withExit == Append(withKiller, exitDoor)
    IN [s EXCEPT
          !.entities = withExit,
          !.timer = GAME_MAX_TIME,
          !.gameOver = FALSE,
          !.gameWon = FALSE,
          !.jumpscareActive = FALSE,
          !.jumpscareTimer = 0,
          !.jumpscareZoom = 1 * ZoomScale,
          !.restartDelayTimer = 0,
          !.canRestart = FALSE,
          !.flashlightOn = FALSE,
          !.flashlightUsageTime = 0,
          !.flashlightCooldownTime = 0,
          !.flashlightAvailable = TRUE,
          !.playerIndex = 0,
          !.killerIndex = Len(withKiller) - 1,
          !.exitDoorIndex = Len(withExit) - 1]

\* InitGame that leaves a running flashlight cooldown as it is
InitGame_KeepsCooldown(s, killerPos, exitPos) ==
    LET player == CreateEntity(PlayerSpawnPos, ENTITY_PLAYER)
        killer == CreateEntity(killerPos, ENTITY_KILLER)
        exitDoor == CreateEntity(exitPos, ENTITY_EXIT_DOOR)
        withPlayer == << player >>
        withNPCs == withPlayer
                      \o [i \in 1 .. NPC_COUNT |-> SpawnNPC(NpcSpawnRolls(i))]
        withKiller == Append(withNPCs, killer)
        withExit == Append(withKiller, exitDoor)
    IN [s EXCEPT
          !.entities = withExit,
          !.timer = GAME_MAX_TIME,
          !.gameOver = FALSE,
          !.gameWon = FALSE,
          !.jumpscareActive = FALSE,
          !.jumpscareTimer = 0,
          !.jumpscareZoom = 1 * ZoomScale,
          !.restartDelayTimer = 0,
          !.canRestart = FALSE,
          !.flashlightOn = FALSE,
          !.flashlightUsageTime = 0,
          !.playerIndex = 0,
          !.killerIndex = Len(withKiller) - 1,
          !.exitDoorIndex = Len(withExit) - 1]

\* killerPos and exitPos are the draws the two do-while loops ended with
InitGame(s, killerPos, exitPos) ==
    LET player == CreateEntity(PlayerSpawnPos, ENTITY_PLAYER)
        killer == CreateEntity(killerPos, ENTITY_KILLER)
        exitDoor == CreateEntity(exitPos, ENTITY_EXIT_DOOR)
        withPlayer == << player >>
        withNPCs == withPlayer
                      \o [i \in 1 .. NPC_COUNT |-> SpawnNPC(NpcSpawnRolls(i))]
        withKiller == Append(withNPCs, killer)
        withExit == Append(withKiller, exitDoor)
    IN [s EXCEPT
          !.entities = withExit,
          !.timer = GAME_MAX_TIME,
          !.gameOver = FALSE,
          !.gameWon = FALSE,
          !.jumpscareActive = FALSE,
          !.jumpscareTimer = 0,
          !.jumpscareZoom = 1 * ZoomScale,
          !.restartDelayTimer = 0,
          !.canRestart = FALSE,
          !.flashlightOn = FALSE,
          !.flashlightUsageTime = 0,
          !.flashlightCooldownTime = 0,
          !.flashlightAvailable = TRUE,
          !.playerIndex = 0,
          !.killerIndex = Len(withKiller) - 1,
          !.exitDoorIndex = Len(withExit) - 1]

-----------------------------------------------------------------------------
(* main.cpp: the update stages of an active round *)

\* keys = [up, down, left, right]: IsKeyDown of W/UP, S/DOWN, A/LEFT, D/RIGHT
KeyVelocity(keys) ==
    LET y1 == IF keys.up THEN -1 ELSE 0
        y2 == IF keys.down THEN 1 ELSE y1
        x1 == IF keys.left THEN -1 ELSE 0
        x2 == IF keys.right THEN 1 ELSE x1
    IN Vec(x2 * DirScale, y2 * DirScale)

\* UpdatePlayer that does not constrain the player to the map
UpdatePlayer_NoClamp(s, deltaTime, keys) ==
    LET p == GetPlayer(s)
    IN IF p = nullptr \/ ~s.entities[p].active THEN s
       ELSE LET velocity == NormalizeSafe(KeyVelocity(keys))
                moved == Vec(s.entities[p].pos.x
                               + RoundDiv(velocity.x * PLAYER_SPEED * deltaTime,
                                          DirScale * UnitsPerSecond),
                             s.entities[p].pos.y
                               + RoundDiv(velocity.y * PLAYER_SPEED * deltaTime,
                                          DirScale * UnitsPerSecond))
            IN [s EXCEPT
                  !.entities[p].velocity = velocity,
                  !.entities[p].pos = moved]

UpdatePlayer(s, deltaTime, keys) ==
    LET p == GetPlayer(s)
    IN IF p = nullptr \/ ~s.entities[p].active THEN s
       ELSE LET velocity == NormalizeSafe(KeyVelocity(keys))
                moved == Vec(s.entities[p].pos.x
                               + RoundDiv(velocity.x * PLAYER_SPEED * deltaTime,
                                          DirScale * UnitsPerSecond),
                             s.entities[p].pos.y
                               + RoundDiv(velocity.y * PLAYER_SPEED * deltaTime,
                                          DirScale * UnitsPerSecond))
            IN [s EXCEPT
                  !.entities[p].velocity = velocity,
                  !.entities[p].pos =
                      ClampPosition(moved, 0, 0, MAP_WIDTH, MAP_HEIGHT)]

\* UpdateNPC that reverses the velocity at the bounds without clamping the
\* position
UpdateNPC_NoClamp(entity, deltaTime, draw) ==
    LET countdown == entity.wanderTimer - deltaTime
        expired == countdown <= 0
        velocity == IF expired
                    THEN RandomVelocity(NPC_SPEED, draw.angle)
                    ELSE entity.velocity
        wanderTimer == IF expired
                       THEN RandomFloat(NPC_WANDER_MIN_TIME,
                                        NPC_WANDER_MAX_TIME, draw.timer)
                       ELSE countdown
        moved == Vec(entity.pos.x + RoundDiv(velocity.x * deltaTime,
                                             SpeedScale * UnitsPerSecond),
                     entity.pos.y + RoundDiv(velocity.y * deltaTime,
                                             SpeedScale * UnitsPerSecond))
        bounceX == moved.x < NPC_MARGIN \/ moved.x > MAP_WIDTH - NPC_MARGIN
        bounceY == moved.y < NPC_MARGIN \/ moved.y > MAP_HEIGHT - NPC_MARGIN
    IN [entity EXCEPT
          !.wanderTimer = wanderTimer,
          !.velocity = Vec(IF bounceX THEN -velocity.x ELSE velocity.x,
                           IF bounceY THEN -velocity.y ELSE velocity.y),
          !.pos = moved]

\* UpdateNPC that integrates the position with the velocity the decoy had
\* before the new one is drawn
UpdateNPC_MovesBeforeDraw(entity, deltaTime, draw) ==
    LET countdown == entity.wanderTimer - deltaTime
        expired == countdown <= 0
        velocity == IF expired
                    THEN RandomVelocity(NPC_SPEED, draw.angle)
                    ELSE entity.velocity
        wanderTimer == IF expired
                       THEN RandomFloat(NPC_WANDER_MIN_TIME,
                                        NPC_WANDER_MAX_TIME, draw.timer)
                       ELSE countdown
        moved == Vec(entity.pos.x + RoundDiv(entity.velocity.x * deltaTime,
                                             SpeedScale * UnitsPerSecond),
                     entity.pos.y + RoundDiv(entity.velocity.y * deltaTime,
                                             SpeedScale * UnitsPerSecond))
        bounceX == moved.x < NPC_MARGIN \/ moved.x > MAP_WIDTH - NPC_MARGIN
        bounceY == moved.y < NPC_MARGIN \/ moved.y > MAP_HEIGHT - NPC_MARGIN
    IN [entity EXCEPT
          !.wanderTimer = wanderTimer,
          !.velocity = Vec(IF bounceX THEN -velocity.x ELSE velocity.x,
                           IF bounceY THEN -velocity.y ELSE velocity.y),
          !.pos = Vec(IF bounceX
                      THEN Clamp(moved.x, NPC_MARGIN, MAP_WIDTH - NPC_MARGIN)
                      ELSE moved.x,
                      IF bounceY
                      THEN Clamp(moved.y, NPC_MARGIN, MAP_HEIGHT - NPC_MARGIN)
                      ELSE moved.y)]

\* the update of one decoy; draw holds the values GetRandomValue(0, 10000)
\* returns for the new direction and the new wander timer
UpdateNPC(entity, deltaTime, draw) ==
    LET countdown == entity.wanderTimer - deltaTime
        expired == countdown <= 0
        velocity == IF expired
                    THEN RandomVelocity(NPC_SPEED, draw.angle)
                    ELSE entity.velocity
        wanderTimer == IF expired
                       THEN RandomFloat(NPC_WANDER_MIN_TIME,
                                        NPC_WANDER_MAX_TIME, draw.timer)
                       ELSE countdown
        moved == Vec(entity.pos.x + RoundDiv(velocity.x * deltaTime,
                                             SpeedScale * UnitsPerSecond),
                     entity.pos.y + RoundDiv(velocity.y * deltaTime,
                                             SpeedScale * UnitsPerSecond))
        bounceX == moved.x < NPC_MARGIN \/ moved.x > MAP_WIDTH - NPC_MARGIN
        bounceY == moved.y < NPC_MARGIN \/ moved.y > MAP_HEIGHT - NPC_MARGIN
    IN [entity EXCEPT
          !.wanderTimer = wanderTimer,
          !.velocity = Vec(IF bounceX THEN -velocity.x ELSE velocity.x,
                           IF bounceY THEN -velocity.y ELSE velocity.y),
          !.pos = Vec(IF bounceX
                      THEN Clamp(moved.x, NPC_MARGIN, MAP_WIDTH - NPC_MARGIN)
                      ELSE moved.x,
                      IF bounceY
                      THEN Clamp(moved.y, NPC_MARGIN, MAP_HEIGHT - NPC_MARGIN)
                      ELSE moved.y)]

\* draws[i] is the draw of the entity at position i of the store
UpdateNPCs(s, deltaTime, draws) ==
    [s EXCEPT !.entities =
        [i \in 1 .. Len(s.entities) |->
            IF s.entities[i].type # ENTITY_NPC \/ ~s.entities[i].active
            THEN s.entities[i]
            ELSE UpdateNPC(s.entities[i], deltaTime, draws[i])]]

\* FlashlightCooldownStep that ends the cooldown only below zero
FlashlightCooldownStep_BelowZero(s, deltaTime) ==
    IF s.flashlightCooldownTime > 0
    THEN IF s.flashlightCooldownTime - deltaTime < 0
         THEN [s EXCEPT !.flashlightCooldownTime = 0,
                        !.flashlightAvailable = TRUE]
         ELSE [s EXCEPT !.flashlightCooldownTime = @ - deltaTime]
    ELSE s

\* the cooldown timer runs down and, at zero, makes the flashlight available
FlashlightCooldownStep(s, deltaTime) ==
    IF s.flashlightCooldownTime > 0
    THEN IF s.flashlightCooldownTime - deltaTime <= 0
         THEN [s EXCEPT !.flashlightCooldownTime = 0,
                        !.flashlightAvailable = TRUE]
         ELSE [s EXCEPT !.flashlightCooldownTime = @ - deltaTime]
    ELSE s

\* FlashlightHold with the duration limit tested by > instead of >=
FlashlightHold_StrictLimit(s, deltaTime) ==
    IF s.flashlightUsageTime + deltaTime > FLASHLIGHT_MAX_DURATION
    THEN [s EXCEPT !.flashlightOn = FALSE,
                   !.flashlightAvailable = FALSE,
                   !.flashlightCooldownTime = FLASHLIGHT_COOLDOWN,
                   !.flashlightUsageTime = 0]
    ELSE [s EXCEPT !.flashlightOn = TRUE,
                   !.flashlightUsageTime = @ + deltaTime]

\* the button is held and the flashlight is available: it is on and usage
\* grows, and at the maximum duration it is shut off into cooldown
FlashlightHold(s, deltaTime) ==
    IF s.flashlightUsageTime + deltaTime >= FLASHLIGHT_MAX_DURATION
    THEN [s EXCEPT !.flashlightOn = FALSE,
                   !.flashlightAvailable = FALSE,
                   !.flashlightCooldownTime = FLASHLIGHT_COOLDOWN,
                   !.flashlightUsageTime = 0]
    ELSE [s EXCEPT !.flashlightOn = TRUE,
                   !.flashlightUsageTime = @ + deltaTime]

\* FlashlightRelease without the reset of the usage time
FlashlightRelease_KeepsUsage(s) ==
    [s EXCEPT !.flashlightOn = FALSE,
              !.flashlightAvailable = FALSE,
              !.flashlightCooldownTime = FLASHLIGHT_COOLDOWN]

\* FlashlightRelease that only switches the flashlight off
FlashlightRelease_NoCooldown(s) ==
    [s EXCEPT !.flashlightOn = FALSE,
              !.flashlightUsageTime = 0]

\* the button is released while the flashlight is on: cooldown starts
FlashlightRelease(s) ==
    [s EXCEPT !.flashlightOn = FALSE,
              !.flashlightAvailable = FALSE,
              !.flashlightCooldownTime = FLASHLIGHT_COOLDOWN,
              !.flashlightUsageTime = 0]

\* the radius of the flashlight's cone, drawn while the flashlight is on
GetFlashlightRadius(s) ==
    FLASHLIGHT_RADIUS
      - RoundDiv((FLASHLIGHT_RADIUS - FLASHLIGHT_MIN_RADIUS)
                   * s.flashlightUsageTime, FLASHLIGHT_MAX_DURATION)

\* UpdateFlashlight that tests the availability the tick began with, so that
\* a flashlight whose cooldown ends comes on one tick later
UpdateFlashlight_AvailableNextTick(s, deltaTime, wantFlashlight) ==
    LET s1 == [s EXCEPT !.killerAI.wasFlashlightOn = s.flashlightOn]
        s2 == FlashlightCooldownStep(s1, deltaTime)
    IN IF wantFlashlight /\ s1.flashlightAvailable
       THEN FlashlightHold(s2, deltaTime)
       ELSE IF ~wantFlashlight /\ s2.flashlightOn
            THEN FlashlightRelease(s2)
            ELSE [s2 EXCEPT !.flashlightOn = FALSE]

UpdateFlashlight(s, deltaTime, wantFlashlight) ==
    LET s1 == [s EXCEPT !.killerAI.wasFlashlightOn = s.flashlightOn]
        s2 == FlashlightCooldownStep(s1, deltaTime)
    IN IF wantFlashlight /\ s2.flashlightAvailable
       THEN FlashlightHold(s2, deltaTime)
       ELSE IF ~wantFlashlight /\ s2.flashlightOn
            THEN FlashlightRelease(s2)
            ELSE [s2 EXCEPT !.flashlightOn = FALSE]

\* GetKillerSpeedMultiplier with the Hunt multiplier ramped up over the
\* flashlight's on-time (1.5, 2 and 3 in the first, second and later second)
GetKillerSpeedMultiplier_HuntRamp(s) ==
    CASE s.killerAI.state = KILLER_STATE_HUNT ->
           IF s.killerAI.flashlightOnTime < 1 * UnitsPerSecond
           THEN (15 * MultScale) \div 10
           ELSE IF s.killerAI.flashlightOnTime < 2 * UnitsPerSecond
                THEN 2 * MultScale
                ELSE KILLER_HUNT_SPEED
      [] s.killerAI.state = KILLER_STATE_SEARCH -> KILLER_SEARCH_SPEED
      [] OTHER -> KILLER_NORMAL_SPEED

GetKillerSpeedMultiplier(s) ==
    CASE s.killerAI.state = KILLER_STATE_HUNT -> KILLER_HUNT_SPEED
      [] s.killerAI.state = KILLER_STATE_SEARCH -> KILLER_SEARCH_SPEED
      [] OTHER -> KILLER_NORMAL_SPEED

\* UpdateKillerAI that enters Hunt on a flashlight-on edge only from Normal
UpdateKillerAI_OnlyFromNormal(s, deltaTime) ==
    LET p == GetPlayer(s)
        flashlightJustTurnedOn == s.flashlightOn /\ ~s.killerAI.wasFlashlightOn
        flashlightJustTurnedOff == ~s.flashlightOn /\ s.killerAI.wasFlashlightOn
        s1 == IF flashlightJustTurnedOn /\ s.killerAI.state = KILLER_STATE_NORMAL
              THEN [s EXCEPT !.killerAI.state = KILLER_STATE_HUNT,
                             !.killerAI.flashlightOnTime = 0]
              ELSE IF flashlightJustTurnedOff
                      /\ s.killerAI.state = KILLER_STATE_HUNT
                   THEN [s EXCEPT !.killerAI.state = KILLER_STATE_SEARCH,
                                  !.killerAI.lastKnownPlayerPos =
                                      s.entities[p].pos]
                   ELSE s
    IN IF p = nullptr THEN s
       ELSE IF s1.killerAI.state = KILLER_STATE_HUNT /\ s1.flashlightOn
            THEN [s1 EXCEPT !.killerAI.flashlightOnTime = @ + deltaTime]
            ELSE s1

\* UpdateKillerAI that enters Hunt without resetting flashlightOnTime
UpdateKillerAI_NoReset(s, deltaTime) ==
    LET p == GetPlayer(s)
        flashlightJustTurnedOn == s.flashlightOn /\ ~s.killerAI.wasFlashlightOn
        flashlightJustTurnedOff == ~s.flashlightOn /\ s.killerAI.wasFlashlightOn
        s1 == IF flashlightJustTurnedOn
              THEN [s EXCEPT !.killerAI.state = KILLER_STATE_HUNT]
              ELSE IF flashlightJustTurnedOff
                      /\ s.killerAI.state = KILLER_STATE_HUNT
                   THEN [s EXCEPT !.killerAI.state = KILLER_STATE_SEARCH,
                                  !.killerAI.lastKnownPlayerPos =
                                      s.entities[p].pos]
                   ELSE s
    IN IF p = nullptr THEN s
       ELSE IF s1.killerAI.state = KILLER_STATE_HUNT /\ s1.flashlightOn
            THEN [s1 EXCEPT !.killerAI.flashlightOnTime = @ + deltaTime]
            ELSE s1

\* UpdateKillerAI that leaves Hunt for Normal, not Search, on a flashlight-off
\* edge
UpdateKillerAI_OffEdgeToNormal(s, deltaTime) ==
    LET p == GetPlayer(s)
        flashlightJustTurnedOn == s.flashlightOn /\ ~s.killerAI.wasFlashlightOn
        flashlightJustTurnedOff == ~s.flashlightOn /\ s.killerAI.wasFlashlightOn
        s1 == IF flashlightJustTurnedOn
              THEN [s EXCEPT !.killerAI.state = KILLER_STATE_HUNT,
                             !.killerAI.flashlightOnTime = 0]
              ELSE IF flashlightJustTurnedOff
                      /\ s.killerAI.state = KILLER_STATE_HUNT
                   THEN [s EXCEPT !.killerAI.state = KILLER_STATE_NORMAL,
                                  !.killerAI.lastKnownPlayerPos =
                                      s.entities[p].pos]
                   ELSE s
    IN IF p = nullptr THEN s
       ELSE IF s1.killerAI.state = KILLER_STATE_HUNT /\ s1.flashlightOn
            THEN [s1 EXCEPT !.killerAI.flashlightOnTime = @ + deltaTime]
            ELSE s1

UpdateKillerAI(s, deltaTime) ==
    LET p == GetPlayer(s)
        flashlightJustTurnedOn == s.flashlightOn /\ ~s.killerAI.wasFlashlightOn
        flashlightJustTurnedOff == ~s.flashlightOn /\ s.killerAI.wasFlashlightOn
        s1 == IF flashlightJustTurnedOn
              THEN [s EXCEPT !.killerAI.state = KILLER_STATE_HUNT,
                             !.killerAI.flashlightOnTime = 0]
              ELSE IF flashlightJustTurnedOff
                      /\ s.killerAI.state = KILLER_STATE_HUNT
                   THEN [s EXCEPT !.killerAI.state = KILLER_STATE_SEARCH,
                                  !.killerAI.lastKnownPlayerPos =
                                      s.entities[p].pos]
                   ELSE s
    IN IF p = nullptr THEN s
       ELSE IF s1.killerAI.state = KILLER_STATE_HUNT /\ s1.flashlightOn
            THEN [s1 EXCEPT !.killerAI.flashlightOnTime = @ + deltaTime]
            ELSE s1

\* powf(1.05f, elapsed) scaled by PowScale, elapsed in time units: whole
\* seconds by repeated multiplication, a remaining half second by the root
RECURSIVE GrowthPow(_)
GrowthPow(elapsed) ==
    IF elapsed <= 0 THEN PowScale
    ELSE IF elapsed < UnitsPerSecond
         THEN ISqrt(GROWTH_PERCENT * ((PowScale * PowScale) \div 100))
         ELSE RoundDiv(GrowthPow(elapsed - UnitsPerSecond) * GROWTH_PERCENT, 100)

TimeSpeedMultiplier[elapsed \in 0 .. GAME_MAX_TIME] == GrowthPow(elapsed)

\* currentSpeed of UpdateKiller, scaled by SpeedScale
KillerCurrentSpeed(s) ==
    LET elapsedTime == GAME_MAX_TIME - s.timer
        baseSpeed == RoundDiv(KILLER_BASE_SPEED * SpeedScale
                                * TimeSpeedMultiplier[elapsedTime], PowScale)
    IN RoundDiv(baseSpeed * GetKillerSpeedMultiplier(s), MultScale)

\* SearchArrival measuring the distance to the player, not to the last known
\* position
SearchArrival_AtPlayer(s) ==
    IF s.killerAI.state = KILLER_STATE_SEARCH
       /\ Distance(s.entities[GetKiller(s)].pos, s.entities[GetPlayer(s)].pos)
            < KILLER_SEARCH_ARRIVAL_THRESHOLD
    THEN [s EXCEPT !.killerAI.state = KILLER_STATE_NORMAL]
    ELSE s

\* the arrival check of the Search case: within the threshold of the last
\* known position the killer returns to Normal
SearchArrival(s) ==
    IF s.killerAI.state = KILLER_STATE_SEARCH
       /\ Distance(s.entities[GetKiller(s)].pos,
                   s.killerAI.lastKnownPlayerPos)
            < KILLER_SEARCH_ARRIVAL_THRESHOLD
    THEN [s EXCEPT !.killerAI.state = KILLER_STATE_NORMAL]
    ELSE s

\* KillerTarget of a killer that chases the player in every state
KillerTarget_AlwaysPlayer(s) == s.entities[GetPlayer(s)].pos

\* targetPos of UpdateKiller: the switch on the AI state as UpdateKillerAI
\* left it
KillerTarget(s) ==
    CASE s.killerAI.state = KILLER_STATE_HUNT -> s.entities[GetPlayer(s)].pos
      [] s.killerAI.state = KILLER_STATE_SEARCH -> s.killerAI.lastKnownPlayerPos
      [] OTHER -> s.entities[GetPlayer(s)].pos

\* UpdateKiller that runs the AI state machine before it looks for the player
\* and the killer
UpdateKiller_AIBeforeGuard(s, deltaTime) ==
    LET k == GetKiller(s)
        p == GetPlayer(s)
        s1 == UpdateKillerAI(s, deltaTime)
    IN IF k = nullptr \/ p = nullptr THEN s1
       ELSE IF ~s.entities[k].active \/ ~s.entities[p].active THEN s1
       ELSE
         LET targetPos == KillerTarget(s1)
             s2 == SearchArrival(s1)
             direction == DirectionTo(s2.entities[k].pos, targetPos)
             currentSpeed == KillerCurrentSpeed(s2)
             velocity == Vec(RoundDiv(direction.x * currentSpeed, DirScale),
                             RoundDiv(direction.y * currentSpeed, DirScale))
             moved == Vec(s2.entities[k].pos.x
                            + RoundDiv(velocity.x * deltaTime,
                                       SpeedScale * UnitsPerSecond),
                          s2.entities[k].pos.y
                            + RoundDiv(velocity.y * deltaTime,
                                       SpeedScale * UnitsPerSecond))
         IN [s2 EXCEPT
               !.entities[k].velocity = velocity,
               !.entities[k].pos =
                   ClampPosition(moved, 0, 0, MAP_WIDTH, MAP_HEIGHT)]

UpdateKiller(s, deltaTime) ==
    LET k == GetKiller(s)
        p == GetPlayer(s)
    IN IF k = nullptr \/ p = nullptr THEN s
       ELSE IF ~s.entities[k].active \/ ~s.entities[p].active THEN s
       ELSE
         LET s1 == UpdateKillerAI(s, deltaTime)
             targetPos == KillerTarget(s1)
             s2 == SearchArrival(s1)
             direction == DirectionTo(s2.entities[k].pos, targetPos)
             currentSpeed == KillerCurrentSpeed(s2)
             velocity == Vec(RoundDiv(direction.x * currentSpeed, DirScale),
                             RoundDiv(direction.y * currentSpeed, DirScale))
             moved == Vec(s2.entities[k].pos.x
                            + RoundDiv(velocity.x * deltaTime,
                                       SpeedScale * UnitsPerSecond),
                          s2.entities[k].pos.y
                            + RoundDiv(velocity.y * deltaTime,
                                       SpeedScale * UnitsPerSecond))
         IN [s2 EXCEPT
               !.entities[k].velocity = velocity,
               !.entities[k].pos =
                   ClampPosition(moved, 0, 0, MAP_WIDTH, MAP_HEIGHT)]

\* UpdateTimer that does not clamp the timer at zero
UpdateTimer_NoClamp(s, deltaTime) ==
    IF s.timer > 0
    THEN IF s.timer - deltaTime <= 0
         THEN [s EXCEPT !.timer = @ - deltaTime, !.gameWon = TRUE]
         ELSE [s EXCEPT !.timer = @ - deltaTime]
    ELSE s

\* UpdateTimer that declares the round won only below zero
UpdateTimer_BelowZero(s, deltaTime) ==
    IF s.timer > 0
    THEN IF s.timer - deltaTime < 0
         THEN [s EXCEPT !.timer = 0, !.gameWon = TRUE]
         ELSE [s EXCEPT !.timer = @ - deltaTime]
    ELSE s

UpdateTimer(s, deltaTime) ==
    IF s.timer > 0
    THEN IF s.timer - deltaTime <= 0
         THEN [s EXCEPT !.timer = 0, !.gameWon = TRUE]
         ELSE [s EXCEPT !.timer = @ - deltaTime]
    ELSE s

CheckPlayerKillerCollision(s) ==
    LET p == GetPlayer(s)
        k == GetKiller(s)
    IN IF p = nullptr \/ k = nullptr THEN s
       ELSE IF ~s.entities[p].active \/ ~s.entities[k].active THEN s
       ELSE IF CheckCollisionCircles(s.entities[p].pos, PLAYER_COLLISION_RADIUS,
                                     s.entities[k].pos, KILLER_COLLISION_RADIUS)
            THEN [s EXCEPT !.gameOver = TRUE,
                           !.jumpscareActive = TRUE,
                           !.jumpscareTimer = 0]
            ELSE s

CheckPlayerExitCollision(s) ==
    LET p == GetPlayer(s)
        e == GetExitDoor(s)
    IN IF p = nullptr \/ e = nullptr THEN s
       ELSE IF ~s.entities[p].active \/ ~s.entities[e].active THEN s
       ELSE LET exitRect ==
                  [x |-> s.entities[e].pos.x - EXIT_DOOR_WIDTH \div 2,
                   y |-> s.entities[e].pos.y - EXIT_DOOR_HEIGHT \div 2,
                   width |-> EXIT_DOOR_WIDTH,
                   height |-> EXIT_DOOR_HEIGHT]
            IN IF CheckCollisionPointRec(s.entities[p].pos, exitRect)
               THEN [s EXCEPT !.gameWon = TRUE]
               ELSE s

-----------------------------------------------------------------------------
(* main.cpp: the end-of-round stages *)

UpdateJumpscare(s, deltaTime) ==
    IF ~s.jumpscareActive THEN s
    ELSE IF GetKiller(s) = nullptr THEN s
    ELSE LET t == s.jumpscareTimer + deltaTime
             progress == Clamp(t, 0, JUMPSCARE_DURATION)
         IN [s EXCEPT
               !.jumpscareTimer = t,
               !.jumpscareZoom = Lerp(1 * ZoomScale, JUMPSCARE_ZOOM_TARGET,
                                      progress, JUMPSCARE_DURATION),
               !.jumpscareActive = ~(t >= JUMPSCARE_DURATION)]

\* UpdateRestartDelay that does not wait for the jumpscare to end
UpdateRestartDelay_DuringJumpscare(s, deltaTime) ==
    IF ~s.gameOver /\ ~s.gameWon THEN s
    ELSE IF ~s.canRestart
         THEN [s EXCEPT !.restartDelayTimer = @ + deltaTime,
                        !.canRestart =
                            (s.restartDelayTimer + deltaTime >= RESTART_DELAY)]
         ELSE s

UpdateRestartDelay(s, deltaTime) ==
    IF ~s.gameOver /\ ~s.gameWon THEN s
    ELSE IF s.jumpscareActive THEN s
    ELSE IF ~s.canRestart
         THEN [s EXCEPT !.restartDelayTimer = @ + deltaTime,
                        !.canRestart =
                            (s.restartDelayTimer + deltaTime >= RESTART_DELAY)]
         ELSE s

-----------------------------------------------------------------------------
(* Inputs of a frame *)

DeltaTimes == {0, ShortFrame, LongFrame}

Keys(up, down, left, right) ==
    [up |-> up, down |-> down, left |-> left, right |-> right]

NoKeys == Keys(FALSE, FALSE, FALSE, FALSE)

\* values GetRandomValue(0, 10000) returns for a decoy whose wander timer
\* expires: direction and new wander timer
NpcDraw(angle, timer) == [angle |-> angle, timer |-> timer]

\* the draws of a frame of the game: every decoy that expires draws these
RoundDraw == NpcDraw(1250, 0)

\* the same draw for every entity of the store
SameDraws(s, draw) == [i \in 1 .. Len(s.entities) |-> draw]

KeyInputs ==
    {NoKeys,
     Keys(FALSE, FALSE, TRUE, FALSE)}

\* values GetRandomValue(0, 10000) returns for the killer's spawn position;
\* 5000 and 7100 are draws the do-while rejects (0 and 399 pixels from the
\* player)
KillerRollsX == {2500, 5000, 7100, 7500}
KillerRollsY == {5000}

\* values GetRandomValue(0, 3) and GetRandomValue(0, 10000) return for the
\* exit door's spawn position
ExitEdges == {3}
ExitRolls == {5000}

\* the draws for which RandomFloat(50, MAP - 50) is a whole number of pixels
WholePixelRolls == {100 * k : k \in 0 .. RandomRange \div 100}

KillerSpawns ==
    {pos \in {KillerSpawnPos(rx, ry) : rx \in KillerRollsX, ry \in KillerRollsY} :
        KillerSpawnAccepted(pos)}

ExitSpawns ==
    {pos \in {ExitSpawnPos(edge, r) : edge \in ExitEdges, r \in ExitRolls} :
        ExitSpawnAccepted(pos)}

-----------------------------------------------------------------------------
(* main.cpp: one iteration of main's loop *)

\* the title branch: DrawTitleScreen starts the first round on request
DrawTitleScreen(s, startRequested, killerPos, exitPos) ==
    IF startRequested
    THEN [InitGame(s, killerPos, exitPos) EXCEPT !.currentScreen = SCREEN_GAMEPLAY]
    ELSE s

\* UpdateRound with the killer updated before the player moves
UpdateRound_KillerBeforePlayer(s, deltaTime, wantFlashlight, keys) ==
    LET s1 == UpdateFlashlight(s, deltaTime, wantFlashlight)
        s2 == UpdateKiller(s1, deltaTime)
        n2 == UpdatePlayer(s2, deltaTime, keys)
        s3 == UpdateNPCs(n2, deltaTime, SameDraws(n2, RoundDraw))
        s4 == UpdateTimer(s3, deltaTime)
        s5 == CheckPlayerKillerCollision(s4)
    IN CheckPlayerExitCollision(s5)

\* the update stage of an active round
UpdateRound(s, deltaTime, wantFlashlight, keys) ==
    LET s1 == UpdateFlashlight(s, deltaTime, wantFlashlight)
        s2 == UpdatePlayer(s1, deltaTime, keys)
        n2 == UpdateNPCs(s2, deltaTime, SameDraws(s2, RoundDraw))
        s3 == UpdateKiller(n2, deltaTime)
        s4 == UpdateTimer(s3, deltaTime)
        s5 == CheckPlayerKillerCollision(s4)
    IN CheckPlayerExitCollision(s5)

\* UpdatePostGame that goes on testing the player against the killer
UpdatePostGame_RechecksCollision(s, deltaTime) ==
    UpdateRestartDelay(UpdateJumpscare(CheckPlayerKillerCollision(s),
                                       deltaTime), deltaTime)

\* the end-of-round stage
UpdatePostGame(s, deltaTime) ==
    UpdateRestartDelay(UpdateJumpscare(s, deltaTime), deltaTime)

\* HandleRestart that does not wait for canRestart
HandleRestart_NoDelay(s, restartPressed, killerPos, exitPos) ==
    IF (s.gameOver \/ s.gameWon) /\ restartPressed
    THEN [InitGame(s, killerPos, exitPos) EXCEPT !.currentScreen = SCREEN_GAMEPLAY]
    ELSE s

\* the gameplay branch, first part: an accepted restart re-seeds the round
HandleRestart(s, restartPressed, killerPos, exitPos) ==
    IF (s.gameOver \/ s.gameWon) /\ s.canRestart /\ restartPressed
    THEN [InitGame(s, killerPos, exitPos) EXCEPT !.currentScreen = SCREEN_GAMEPLAY]
    ELSE s

\* UpdateStage that keeps the survival timer running after the round ended
UpdateStage_TimerKeepsRunning(s, deltaTime, wantFlashlight, keys) ==
    IF ~s.gameOver /\ ~s.gameWon
    THEN UpdateRound(s, deltaTime, wantFlashlight, keys)
    ELSE UpdatePostGame(UpdateTimer(s, deltaTime), deltaTime)

\* the gameplay branch, second part: the update stage of the frame
UpdateStage(s, deltaTime, wantFlashlight, keys) ==
    IF ~s.gameOver /\ ~s.gameWon
    THEN UpdateRound(s, deltaTime, wantFlashlight, keys)
    ELSE UpdatePostGame(s, deltaTime)

GameplayFrame(s, deltaTime, wantFlashlight, keys, restartPressed, killerPos, exitPos) ==
    UpdateStage(HandleRestart(s, restartPressed, killerPos, exitPos),
                deltaTime, wantFlashlight, keys)

RoundEnded(s) == s.gameOver \/ s.gameWon

\* what the frame just run was: its number, its branch of the loop, the
\* inputs it read and the game state its update stage started from (after
\* InitGame when the frame started a round); roundTime is the sum of the
\* deltaTime of the update stages the round has had while it was active,
\* waitTime that of the frames it has had since it ended that began with
\* canRestart false
FrameRecord(op, deltaTime, wantFlashlight, keys, restartPressed, before) ==
    [n |-> frame.n + 1, op |-> op, deltaTime |-> deltaTime,
     wantFlashlight |-> wantFlashlight, keys |-> keys,
     restartPressed |-> restartPressed, before |-> before,
     draw |-> RoundDraw,
     roundTime |-> CASE op = "start" -> 0
                     [] op = "restart" -> deltaTime
                     [] op = "active" -> frame.roundTime + deltaTime
                     [] OTHER -> frame.roundTime,
     waitTime |-> IF op = "postgame"
                  THEN IF before.canRestart THEN frame.waitTime
                       ELSE frame.waitTime + deltaTime
                  ELSE 0]

Init ==
    /\ state = CreateGameState
    /\ frame = [n |-> 0, op |-> "boot", deltaTime |-> 0,
                wantFlashlight |-> FALSE, keys |-> NoKeys,
                restartPressed |-> FALSE, before |-> CreateGameState,
                draw |-> RoundDraw, roundTime |-> 0,
                waitTime |-> 0]

\* a frame on the title screen
TitleFrame ==
    /\ frame.n < MaxFrames
    /\ state.currentScreen = SCREEN_TITLE
    /\ \E startRequested \in BOOLEAN, killerPos \in KillerSpawns,
          exitPos \in ExitSpawns :
         /\ state' = DrawTitleScreen(state, startRequested, killerPos, exitPos)
         /\ frame' = FrameRecord(IF startRequested THEN "start" ELSE "title",
                                 0, FALSE, NoKeys, FALSE, state')

\* a gameplay frame of an active round
ActiveFrame ==
    /\ frame.n < MaxFrames
    /\ state.currentScreen = SCREEN_GAMEPLAY
    /\ ~RoundEnded(state)
    /\ \E deltaTime \in DeltaTimes, wantFlashlight \in BOOLEAN,
          keys \in KeyInputs :
         /\ state' = GameplayFrame(state, deltaTime, wantFlashlight, keys,
                                   FALSE, PlayerSpawnPos, PlayerSpawnPos)
         /\ frame' = FrameRecord("active", deltaTime, wantFlashlight, keys,
                                 FALSE, state)

\* a gameplay frame after the round has ended, without an accepted restart
PostGameFrame ==
    /\ frame.n < MaxFrames
    /\ state.currentScreen = SCREEN_GAMEPLAY
    /\ RoundEnded(state)
    /\ \E deltaTime \in DeltaTimes, restartPressed \in BOOLEAN :
         /\ restartPressed => ~state.canRestart
         /\ state' = GameplayFrame(state, deltaTime, FALSE, NoKeys,
                                   restartPressed, PlayerSpawnPos, PlayerSpawnPos)
         /\ frame' = FrameRecord("postgame", deltaTime, FALSE, NoKeys,
                                 restartPressed, state)

\* a gameplay frame in which a restart is requested and accepted: InitGame,
\* then the update stage of the new round in the same frame
RestartFrame ==
    /\ frame.n < MaxFrames
    /\ state.currentScreen = SCREEN_GAMEPLAY
    /\ RoundEnded(state)
    /\ state.canRestart
    /\ \E deltaTime \in DeltaTimes, wantFlashlight \in BOOLEAN,
          keys \in KeyInputs, killerPos \in KillerSpawns,
          exitPos \in ExitSpawns :
         /\ state' = GameplayFrame(state, deltaTime, wantFlashlight, keys,
                                   TRUE, killerPos, exitPos)
         /\ frame' = FrameRecord("restart", deltaTime, wantFlashlight, keys,
                                 TRUE,
                                 HandleRestart(state, TRUE, killerPos, exitPos))

Next == TitleFrame \/ ActiveFrame \/ PostGameFrame \/ RestartFrame

Spec == Init /\ [][Next]_vars

-----------------------------------------------------------------------------
(* The decoys on their own: UpdateNPCs applied to the store of a started
   round, over tick durations and random draws *)

NpcDraws == {NpcDraw(angle, timer) : angle \in {1250, 6250}, timer \in {0, 10000}}

InitDecoys ==
    \E killerPos \in KillerSpawns, exitPos \in ExitSpawns :
      /\ state = DrawTitleScreen(CreateGameState, TRUE, killerPos, exitPos)
      /\ frame = [n |-> 0, op |-> "start", deltaTime |-> 0,
                  wantFlashlight |-> FALSE, keys |-> NoKeys,
                  restartPressed |-> FALSE,
                  before |-> DrawTitleScreen(CreateGameState, TRUE,
                                             killerPos, exitPos),
                  draw |-> RoundDraw, roundTime |-> 0,
                waitTime |-> 0]

\* one call of UpdateNPCs
DecoyTick ==
    /\ frame.n < MaxDecoyTicks
    /\ \E deltaTime \in DeltaTimes, draw \in NpcDraws :
         /\ state' = UpdateNPCs(state, deltaTime, SameDraws(state, draw))
         /\ frame' = [FrameRecord("decoys", deltaTime, FALSE, NoKeys, FALSE,
                                  state) EXCEPT !.draw = draw]

NextDecoys == DecoyTick

SpecDecoys == InitDecoys /\ [][NextDecoys]_vars

-----------------------------------------------------------------------------
(* The guards against a missing entity: the update stage of a round applied
   to game states in which GetPlayer or GetKiller returns no entity, or an
   inactive one.  InitGame leaves every entity present and active and no
   code clears an active flag, so these states are given, not reached. *)

SkipCases ==
    {"player inactive", "killer inactive", "player missing", "killer missing",
     "store empty"}

\* the game state s with the player or the killer made inactive or missing
WithoutEntity(s, case) ==
    CASE case = "player inactive" ->
           [s EXCEPT !.entities[GetPlayer(s)].active = FALSE]
      [] case = "killer inactive" ->
           [s EXCEPT !.entities[GetKiller(s)].active = FALSE]
      [] case = "player missing" -> [s EXCEPT !.playerIndex = -1]
      [] case = "killer missing" -> [s EXCEPT !.killerIndex = -1]
      [] OTHER -> [s EXCEPT !.entities = << >>, !.playerIndex = -1,
                            !.killerIndex = -1, !.exitDoorIndex = -1]

\* the flashlight on at the end of the tick before, or off, and the killer
\* AI in any state with any edge flag
GivenRound(s, aiState, on, was) ==
    [s EXCEPT
       !.flashlightOn = on,
       !.flashlightUsageTime = IF on THEN ShortFrame ELSE 0,
       !.killerAI = [state |-> aiState,
                     lastKnownPlayerPos |-> PlayerSpawnPos,
                     flashlightOnTime |->
                         IF aiState = KILLER_STATE_HUNT THEN ShortFrame ELSE 0,
                     wasFlashlightOn |-> was]]

InitSkipped ==
    \E killerPos \in KillerSpawns, exitPos \in ExitSpawns, case \in SkipCases,
       aiState \in {KILLER_STATE_NORMAL, KILLER_STATE_HUNT, KILLER_STATE_SEARCH},
       on \in BOOLEAN, was \in BOOLEAN :
      LET started == DrawTitleScreen(CreateGameState, TRUE, killerPos, exitPos)
          given == GivenRound(WithoutEntity(started, case), aiState, on, was)
      IN /\ state = given
         /\ frame = [n |-> 0, op |-> "given", deltaTime |-> 0,
                     wantFlashlight |-> FALSE, keys |-> NoKeys,
                     restartPressed |-> FALSE, before |-> given,
                     draw |-> RoundDraw, roundTime |-> 0,
                waitTime |-> 0]

\* a gameplay frame of an active round in which the killer update is skipped
SkippedTick ==
    /\ frame.n < MaxSkippedTicks
    /\ ~RoundEnded(state)
    /\ \E deltaTime \in DeltaTimes, wantFlashlight \in BOOLEAN,
          keys \in KeyInputs :
         /\ state' = GameplayFrame(state, deltaTime, wantFlashlight, keys,
                                   FALSE, PlayerSpawnPos, PlayerSpawnPos)
         /\ frame' = FrameRecord("skipped", deltaTime, wantFlashlight, keys,
                                 FALSE, state)

NextSkipped == SkippedTick

SpecSkipped == InitSkipped /\ [][NextSkipped]_vars

-----------------------------------------------------------------------------
(* Vocabulary of the properties *)

\* the frame just run updated an active round (after a restart, the new one)
RoundTick == frame.op \in {"active", "restart"}

\* the frame just run began a round
RoundStart == frame.op \in {"start", "restart"}

PlayerPos(s) == s.entities[GetPlayer(s)].pos
KillerPos(s) == s.entities[GetKiller(s)].pos
KillerVelocity(s) == s.entities[GetKiller(s)].velocity

FlashlightJustTurnedOn == state.flashlightOn /\ ~state.killerAI.wasFlashlightOn
FlashlightJustTurnedOff == ~state.flashlightOn /\ state.killerAI.wasFlashlightOn

-----------------------------------------------------------------------------
(* Round outcome and round start *)

\* C1: after any sequence of ticks, inputs and restarts, gameOver and
\* gameWon are never both true at the same time.
C1_NeverBothEnded == ~(state.gameOver /\ state.gameWon)

\* C2: at the start of every round (the first start from the title screen
\* and every accepted restart) the killer AI state is Normal, whatever state
\* the killer was in when the previous round ended.
C2_RoundStartsNormal ==
    RoundStart => frame.before.killerAI.state = KILLER_STATE_NORMAL

-----------------------------------------------------------------------------
(* Flashlight resource *)

\* C3: at the end of a tick the flashlight usage time and the cooldown time
\* are never both positive, and every tick that enters cooldown leaves the
\* usage time at zero.
C3_UsageCooldownExclusive ==
    /\ ~(state.flashlightUsageTime > 0 /\ state.flashlightCooldownTime > 0)
    /\ (RoundTick
        /\ state.flashlightCooldownTime > frame.before.flashlightCooldownTime)
       => state.flashlightUsageTime = 0

\* a tick entered cooldown with usage time accumulated
C3_Witness ==
    /\ RoundTick
    /\ frame.before.flashlightUsageTime > 0
    /\ frame.before.flashlightCooldownTime = 0
    /\ state.flashlightCooldownTime = FLASHLIGHT_COOLDOWN

-----------------------------------------------------------------------------
(* Killer AI transitions *)

\* C4: in any tick of an active round in which the flashlight is on and was
\* off at the end of the previous tick, the killer AI is in Hunt after the
\* tick, whatever state it was in before.
C4_OnEdgeEntersHunt ==
    (RoundTick /\ FlashlightJustTurnedOn)
      => state.killerAI.state = KILLER_STATE_HUNT

\* a flashlight-on edge found the killer in Search
C4_Witness ==
    /\ RoundTick
    /\ FlashlightJustTurnedOn
    /\ frame.before.killerAI.state = KILLER_STATE_SEARCH

\* C5 as stated: starting in Normal, a tick with a flashlight-on edge leaves
\* the killer in Hunt with flashlightOnTime equal to 0.
C5_OnTimeZeroAfterEdge ==
    (RoundTick /\ FlashlightJustTurnedOn
     /\ frame.before.killerAI.state = KILLER_STATE_NORMAL)
      => /\ state.killerAI.state = KILLER_STATE_HUNT
         /\ state.killerAI.flashlightOnTime = 0

\* C5: starting in Normal, a tick with a flashlight-on edge leaves the killer
\* in Hunt with flashlightOnTime reset and then advanced by that tick: it
\* equals the tick's duration, whatever it had accumulated before.
C5_OnTimeRestartsAtEdge ==
    (RoundTick /\ FlashlightJustTurnedOn
     /\ frame.before.killerAI.state = KILLER_STATE_NORMAL)
      => /\ state.killerAI.state = KILLER_STATE_HUNT
         /\ state.killerAI.flashlightOnTime = frame.deltaTime

\* a flashlight-on edge in Normal, in a tick that lasts, with on-time left
\* over from an earlier Hunt
C5_Witness ==
    /\ RoundTick
    /\ FlashlightJustTurnedOn
    /\ frame.before.killerAI.state = KILLER_STATE_NORMAL
    /\ frame.before.killerAI.flashlightOnTime > 0
    /\ frame.deltaTime > 0

\* C6 as stated: from Hunt, a tick in which the flashlight goes from on to
\* off leaves the killer in Search, with the player's position after that
\* tick's motion as last known position.
C6_OffEdgeEndsInSearch ==
    (RoundTick /\ FlashlightJustTurnedOff
     /\ frame.before.killerAI.state = KILLER_STATE_HUNT)
      => /\ state.killerAI.state = KILLER_STATE_SEARCH
         /\ state.killerAI.lastKnownPlayerPos = PlayerPos(state)

\* C6: from Hunt, a tick in which the flashlight goes from on to off records
\* the player's position after that tick's motion as last known position and
\* moves the killer to Search; when the killer, before it moves, is already
\* within the arrival threshold of that position, the same tick takes it on
\* from Search to Normal.
C6_OffEdgeSnapshot ==
    (RoundTick /\ FlashlightJustTurnedOff
     /\ frame.before.killerAI.state = KILLER_STATE_HUNT)
      => /\ state.killerAI.lastKnownPlayerPos = PlayerPos(state)
         /\ state.killerAI.state =
              IF Distance(KillerPos(frame.before), PlayerPos(state))
                   < KILLER_SEARCH_ARRIVAL_THRESHOLD
              THEN KILLER_STATE_NORMAL
              ELSE KILLER_STATE_SEARCH

\* a flashlight-off edge in Hunt, in a tick in which the player moved
C6_Witness ==
    /\ RoundTick
    /\ FlashlightJustTurnedOff
    /\ frame.before.killerAI.state = KILLER_STATE_HUNT
    /\ state.killerAI.state = KILLER_STATE_SEARCH
    /\ PlayerPos(state) # PlayerPos(frame.before)

\* C7: from Search, a tick without a flashlight-on edge that finds the
\* killer, before it moves, within the arrival threshold of the last known
\* position leaves the killer in Normal, flashlight on or off.
C7_ArrivalEndsSearch ==
    (RoundTick /\ ~FlashlightJustTurnedOn
     /\ frame.before.killerAI.state = KILLER_STATE_SEARCH
     /\ Distance(KillerPos(frame.before),
                 frame.before.killerAI.lastKnownPlayerPos)
          < KILLER_SEARCH_ARRIVAL_THRESHOLD)
      => state.killerAI.state = KILLER_STATE_NORMAL

\* the killer arrived with the flashlight off and the player elsewhere
C7_Witness ==
    /\ RoundTick
    /\ frame.op = "active"
    /\ frame.before.killerAI.state = KILLER_STATE_SEARCH
    /\ Distance(KillerPos(frame.before),
                frame.before.killerAI.lastKnownPlayerPos)
         < KILLER_SEARCH_ARRIVAL_THRESHOLD
    /\ ~state.flashlightOn
    /\ state.killerAI.state = KILLER_STATE_NORMAL
    /\ PlayerPos(frame.before) # frame.before.killerAI.lastKnownPlayerPos

\* the changes of AI state that C8 allows whatever the reading of "directly"
TransitionsBesideHuntToNormal ==
    LET b == frame.before.killerAI.state
        a == state.killerAI.state
    IN /\ ~RoundTick => a = b
       /\ RoundTick =>
            /\ (a = KILLER_STATE_HUNT /\ b # KILLER_STATE_HUNT)
                 => FlashlightJustTurnedOn
            /\ (b = KILLER_STATE_NORMAL /\ ~FlashlightJustTurnedOn)
                 => a = KILLER_STATE_NORMAL
            /\ a = KILLER_STATE_SEARCH
                 => b \in {KILLER_STATE_HUNT, KILLER_STATE_SEARCH}
            /\ (b = KILLER_STATE_HUNT /\ a = KILLER_STATE_SEARCH)
                 => FlashlightJustTurnedOff
            /\ (b = KILLER_STATE_SEARCH /\ a = KILLER_STATE_NORMAL)
                 => Distance(KillerPos(frame.before),
                             state.killerAI.lastKnownPlayerPos)
                      < KILLER_SEARCH_ARRIVAL_THRESHOLD

\* C8 as stated: the AI state changes only from any state to Hunt on a
\* flashlight-on edge, from Hunt to Search on a flashlight-off edge and from
\* Search to Normal on arrival; no tick takes the killer from Hunt to Normal.
C8_NoTickFromHuntToNormal ==
    /\ TransitionsBesideHuntToNormal
    /\ (RoundTick /\ frame.before.killerAI.state = KILLER_STATE_HUNT)
         => state.killerAI.state # KILLER_STATE_NORMAL

\* C8: the AI state changes only from any state to Hunt on a flashlight-on
\* edge, from Hunt to Search on a flashlight-off edge and from Search to
\* Normal on arrival; a tick takes the killer from Hunt to Normal only by
\* both of the last two at once, a flashlight-off edge with the killer
\* already within the arrival threshold of the position just recorded.
C8_OnlyThreeTransitions ==
    /\ TransitionsBesideHuntToNormal
    /\ (RoundTick /\ frame.before.killerAI.state = KILLER_STATE_HUNT
        /\ state.killerAI.state = KILLER_STATE_NORMAL)
         => /\ FlashlightJustTurnedOff
            /\ state.killerAI.lastKnownPlayerPos = PlayerPos(state)
            /\ Distance(KillerPos(frame.before),
                        state.killerAI.lastKnownPlayerPos)
                 < KILLER_SEARCH_ARRIVAL_THRESHOLD

\* one tick took the killer from Hunt through Search to Normal
C8_Witness ==
    /\ RoundTick
    /\ frame.before.killerAI.state = KILLER_STATE_HUNT
    /\ state.killerAI.state = KILLER_STATE_NORMAL

-----------------------------------------------------------------------------
(* Flashlight shut-off *)

\* C9: if the flashlight is on and its usage time reaches the maximum
\* duration in a tick, then at the end of that tick the flashlight is off
\* and unavailable, the cooldown is the full cooldown and usage is zero.
C9_ForcedShutOffSameTick ==
    (RoundTick /\ frame.before.flashlightOn /\ frame.wantFlashlight
     /\ frame.before.flashlightUsageTime + frame.deltaTime
          >= FLASHLIGHT_MAX_DURATION)
      => /\ ~state.flashlightOn
         /\ ~state.flashlightAvailable
         /\ state.flashlightCooldownTime = FLASHLIGHT_COOLDOWN
         /\ state.flashlightUsageTime = 0

\* the usage time reached exactly the maximum duration while the button
\* was held
C9_Witness ==
    /\ RoundTick
    /\ frame.before.flashlightOn
    /\ frame.wantFlashlight
    /\ frame.before.flashlightUsageTime + frame.deltaTime
         = FLASHLIGHT_MAX_DURATION
    /\ ~state.flashlightOn

\* C10: if the button is not held in a tick while the flashlight was on, the
\* flashlight turns off, becomes unavailable and the cooldown is set to the
\* full cooldown, whatever usage time had accumulated.
C10_ReleaseStartsCooldown ==
    (RoundTick /\ frame.before.flashlightOn /\ ~frame.wantFlashlight)
      => /\ ~state.flashlightOn
         /\ ~state.flashlightAvailable
         /\ state.flashlightCooldownTime = FLASHLIGHT_COOLDOWN

\* the button was released before the usage time reached the maximum
C10_Witness ==
    /\ RoundTick
    /\ frame.before.flashlightOn
    /\ ~frame.wantFlashlight
    /\ frame.before.flashlightUsageTime > 0
    /\ frame.before.flashlightUsageTime < FLASHLIGHT_MAX_DURATION
    /\ ~state.flashlightOn

-----------------------------------------------------------------------------
(* Cooldown *)

\* the cooldown of the frame just run reached zero
CooldownElapsed ==
    frame.before.flashlightCooldownTime - frame.deltaTime <= 0

\* what holds of the cooldown in every state and in the ticks in which it
\* does not reach zero
CooldownRunsDown ==
    /\ state.flashlightCooldownTime >= 0
    /\ state.flashlightAvailable <=> state.flashlightCooldownTime = 0
    /\ (RoundTick /\ frame.before.flashlightCooldownTime > 0
        /\ ~CooldownElapsed)
         => /\ ~state.flashlightAvailable
            /\ state.flashlightCooldownTime =
                 frame.before.flashlightCooldownTime - frame.deltaTime

\* C11 as stated: while the cooldown is positive the flashlight stays
\* unavailable and the cooldown decreases by the tick duration, never below
\* zero; the tick in which the cooldown reaches zero ends with the
\* flashlight available.
C11_AvailableWhenCooldownEnds ==
    /\ CooldownRunsDown
    /\ (RoundTick /\ frame.before.flashlightCooldownTime > 0
        /\ CooldownElapsed)
         => /\ state.flashlightAvailable
            /\ state.flashlightCooldownTime = 0

\* C11: while the cooldown is positive the flashlight stays unavailable and
\* the cooldown decreases by the tick duration, never below zero; in the
\* tick in which the cooldown reaches zero the flashlight becomes available,
\* and ends the tick available unless the button is held and the tick lasts
\* the maximum duration or longer: then it is shut off again in the same
\* tick and ends it unavailable with the full cooldown.
C11_CooldownRecovery ==
    /\ CooldownRunsDown
    /\ (RoundTick /\ frame.before.flashlightCooldownTime > 0
        /\ CooldownElapsed)
         => IF frame.wantFlashlight
               /\ frame.deltaTime >= FLASHLIGHT_MAX_DURATION
            THEN /\ ~state.flashlightOn
                 /\ ~state.flashlightAvailable
                 /\ state.flashlightCooldownTime = FLASHLIGHT_COOLDOWN
                 /\ state.flashlightUsageTime = 0
            ELSE /\ state.flashlightAvailable
                 /\ state.flashlightCooldownTime = 0

\* a cooldown that had run down in part reached exactly zero
C11_Witness ==
    /\ RoundTick
    /\ frame.before.flashlightCooldownTime > 0
    /\ frame.before.flashlightCooldownTime < FLASHLIGHT_COOLDOWN
    /\ frame.before.flashlightCooldownTime = frame.deltaTime
    /\ state.flashlightAvailable

-----------------------------------------------------------------------------
(* Round end *)

\* the player's and the killer's circles overlap in s
KillerCaughtPlayer(s) ==
    CheckCollisionCircles(PlayerPos(s), PLAYER_COLLISION_RADIUS,
                          KillerPos(s), KILLER_COLLISION_RADIUS)

\* C12: a tick of an active round that ends with the player's and the
\* killer's circles overlapping sets gameOver and starts the jumpscare with
\* jumpscareTimer = 0, and only such a tick does; a frame after the round
\* has ended keeps gameOver as it is, starts no jumpscare and only advances
\* jumpscareTimer, by the frame's duration while the jumpscare runs.
C12_CaughtOnce ==
    /\ RoundTick
         => /\ ~frame.before.gameOver /\ ~frame.before.jumpscareActive
            /\ state.gameOver <=> KillerCaughtPlayer(state)
            /\ state.jumpscareActive <=> KillerCaughtPlayer(state)
            /\ KillerCaughtPlayer(state) => state.jumpscareTimer = 0
    /\ frame.op = "postgame"
         => /\ state.gameOver <=> frame.before.gameOver
            /\ state.jumpscareActive => frame.before.jumpscareActive
            /\ state.jumpscareTimer =
                 frame.before.jumpscareTimer
                   + (IF frame.before.jumpscareActive
                      THEN frame.deltaTime ELSE 0)

\* a frame after the killer caught the player, with the jumpscare under way
C12_Witness ==
    /\ frame.op = "postgame"
    /\ frame.before.gameOver
    /\ frame.before.jumpscareActive
    /\ frame.before.jumpscareTimer > 0
    /\ KillerCaughtPlayer(state)
    /\ state.jumpscareTimer > frame.before.jumpscareTimer

\* C13: the survival timer always stays within [0, GAME_MAX_TIME]; a tick
\* of an active round takes the tick's duration off it, and the tick in
\* which it reaches zero sets gameWon and leaves it at exactly 0, where it
\* stays in every frame until a restart.
C13_TimerWithinRange ==
    /\ state.timer >= 0 /\ state.timer <= GAME_MAX_TIME
    /\ state.timer = 0 => state.gameWon
    /\ RoundTick
         => /\ frame.before.timer > 0
            /\ state.timer =
                 IF frame.before.timer - frame.deltaTime <= 0
                 THEN 0
                 ELSE frame.before.timer - frame.deltaTime
    /\ frame.op = "postgame"
         => /\ state.timer = frame.before.timer
            /\ frame.before.gameWon => state.gameWon

\* the tick's duration was longer than the time left on the timer
C13_Witness ==
    /\ RoundTick
    /\ frame.before.timer < frame.deltaTime
    /\ state.timer = 0
    /\ state.gameWon

-----------------------------------------------------------------------------
(* Restart *)

\* C14: a restart requested while canRestart is false (round still active,
\* jumpscare running or restart delay not yet elapsed) does not re-seed the
\* round: the restart handling of the frame leaves the state as it is, and
\* a frame run with such a request left the state exactly as the update
\* stage alone leaves it.
C14_EarlyRestartIgnored ==
    /\ (state.currentScreen = SCREEN_GAMEPLAY /\ ~state.canRestart)
         => \A killerPos \in KillerSpawns, exitPos \in ExitSpawns :
              HandleRestart(state, TRUE, killerPos, exitPos) = state
    /\ (frame.op = "postgame" /\ frame.restartPressed)
         => /\ ~frame.before.canRestart
            /\ state = UpdateStage(frame.before, frame.deltaTime,
                                   frame.wantFlashlight, frame.keys)

\* a restart requested after the round ended, before canRestart, in a frame
\* that changed the state
C14_Witness ==
    /\ frame.op = "postgame"
    /\ frame.restartPressed
    /\ ~frame.before.canRestart
    /\ state # frame.before
    /\ RoundEnded(state)

\* the round state InitGame leaves
Reseeded(s) ==
    /\ s.timer = GAME_MAX_TIME
    /\ ~s.gameOver /\ ~s.gameWon
    /\ ~s.flashlightOn /\ s.flashlightAvailable
    /\ s.flashlightUsageTime = 0 /\ s.flashlightCooldownTime = 0
    /\ ~s.jumpscareActive /\ s.jumpscareTimer = 0
    /\ s.jumpscareZoom = 1 * ZoomScale
    /\ s.restartDelayTimer = 0 /\ ~s.canRestart

\* C15: the restart handling of a frame changes the state only when the
\* round has ended, canRestart is true and a restart is requested, and then
\* it leaves the timer at its maximum, gameOver and gameWon false, the
\* flashlight off and available with usage and cooldown 0, the jumpscare
\* inactive with timer 0 and zoom 1, the restart delay timer 0 and
\* canRestart false.
C15_RestartReseeds ==
    /\ state.currentScreen = SCREEN_GAMEPLAY
         => \A restartPressed \in BOOLEAN, killerPos \in KillerSpawns,
               exitPos \in ExitSpawns :
              LET s == HandleRestart(state, restartPressed, killerPos, exitPos)
              IN IF RoundEnded(state) /\ state.canRestart /\ restartPressed
                 THEN Reseeded(s)
                 ELSE s = state
    /\ frame.op = "restart"
         => /\ frame.restartPressed
            /\ Reseeded(frame.before)

\* a restart was accepted, and the frame went on to update the new round
C15_Witness ==
    /\ frame.op = "restart"
    /\ frame.restartPressed
    /\ frame.deltaTime > 0
    /\ state.timer < GAME_MAX_TIME
    /\ ~state.canRestart

\* C16: once gameOver or gameWon is true, a frame without an accepted
\* restart leaves the entities (positions, velocities), the survival timer,
\* the flashlight fields, the killer AI state and both flags unchanged.
C16_EndedRoundFrozen ==
    frame.op = "postgame"
      => /\ RoundEnded(frame.before)
         /\ state.entities = frame.before.entities
         /\ state.timer = frame.before.timer
         /\ state.flashlightOn = frame.before.flashlightOn
         /\ state.flashlightUsageTime = frame.before.flashlightUsageTime
         /\ state.flashlightCooldownTime = frame.before.flashlightCooldownTime
         /\ state.flashlightAvailable = frame.before.flashlightAvailable
         /\ state.killerAI = frame.before.killerAI
         /\ state.gameOver = frame.before.gameOver
         /\ state.gameWon = frame.before.gameWon

\* a frame that lasted, after a round that ended with time on the timer, a
\* cooldown running and the killer away from the player
C16_Witness ==
    /\ frame.op = "postgame"
    /\ frame.deltaTime > 0
    /\ frame.before.timer > 0
    /\ frame.before.flashlightCooldownTime > 0
    /\ ~KillerCaughtPlayer(frame.before)

-----------------------------------------------------------------------------
(* Player motion *)

\* an opposite pair of direction keys held, and no other
OppositeKeys ==
    {Keys(TRUE, TRUE, FALSE, FALSE), Keys(FALSE, FALSE, TRUE, TRUE)}

\* C17: with only an opposite pair of direction keys held (up with down, or
\* left with right) the motion stage leaves the player's position
\* unchanged, whatever the tick's duration.
C17_OppositeKeysCancel ==
    (state.currentScreen = SCREEN_GAMEPLAY /\ ~RoundEnded(state))
      => \A deltaTime \in DeltaTimes, keys \in OppositeKeys :
           PlayerPos(UpdatePlayer(state, deltaTime, keys)) = PlayerPos(state)

-----------------------------------------------------------------------------
(* Decoys *)

\* positions of the store that hold decoys
NpcIndices(s) ==
    {i \in 1 .. Len(s.entities) : s.entities[i].type = ENTITY_NPC}

WithinInset(pos) ==
    /\ pos.x >= NPC_MARGIN /\ pos.x <= MAP_WIDTH - NPC_MARGIN
    /\ pos.y >= NPC_MARGIN /\ pos.y <= MAP_HEIGHT - NPC_MARGIN

\* C18: from a spawned round on and after any number of decoy updates of
\* any duration, every decoy's position is within [50, MAP - 50] on both
\* axes, bounds included.
C18_DecoysWithinInset ==
    \A i \in NpcIndices(state) : WithinInset(state.entities[i].pos)

\* a decoy ran into the lower bound of x and was put back on it, its
\* velocity reversed
C18_Witness ==
    /\ frame.op = "decoys"
    /\ \E i \in NpcIndices(state) :
         /\ frame.before.entities[i].pos.x > NPC_MARGIN
         /\ state.entities[i].pos.x = NPC_MARGIN
         /\ state.entities[i].velocity.x > 0

\* C19: a decoy whose wander timer is 0 at the start of a tick ends the tick
\* with the wander timer drawn in that tick, within [NPC_WANDER_MIN_TIME,
\* NPC_WANDER_MAX_TIME], and with its position integrated with the velocity
\* drawn in that tick (and put back on the bounds, the velocity reversed
\* on that axis, where it left them).
C19_ExpiredDecoyRedraws ==
    frame.op = "decoys"
      => \A i \in NpcIndices(frame.before) :
           frame.before.entities[i].wanderTimer = 0
             => LET b == frame.before.entities[i]
                    e == state.entities[i]
                    v == RandomVelocity(NPC_SPEED, frame.draw.angle)
                    dx == RoundDiv(v.x * frame.deltaTime,
                                   SpeedScale * UnitsPerSecond)
                    dy == RoundDiv(v.y * frame.deltaTime,
                                   SpeedScale * UnitsPerSecond)
                IN /\ e.wanderTimer = RandomFloat(NPC_WANDER_MIN_TIME,
                                                  NPC_WANDER_MAX_TIME,
                                                  frame.draw.timer)
                   /\ e.wanderTimer >= NPC_WANDER_MIN_TIME
                   /\ e.wanderTimer <= NPC_WANDER_MAX_TIME
                   /\ e.pos.x = Clamp(b.pos.x + dx, NPC_MARGIN,
                                      MAP_WIDTH - NPC_MARGIN)
                   /\ e.pos.y = Clamp(b.pos.y + dy, NPC_MARGIN,
                                      MAP_HEIGHT - NPC_MARGIN)
                   /\ e.velocity.x \in {v.x, -v.x}
                   /\ e.velocity.y \in {v.y, -v.y}

\* a decoy with wander timer 0 drew a velocity other than the one it had and
\* moved with it
C19_Witness ==
    /\ frame.op = "decoys"
    /\ frame.deltaTime > 0
    /\ \E i \in NpcIndices(frame.before) :
         /\ frame.before.entities[i].wanderTimer = 0
         /\ frame.before.entities[i].velocity.x < 0
         /\ state.entities[i].velocity.x > 0
         /\ state.entities[i].pos.x > frame.before.entities[i].pos.x

-----------------------------------------------------------------------------
(* Entity store *)

\* positions of the store that hold an entity of the given type
IndicesOfType(s, entityType) ==
    {i \in 1 .. Len(s.entities) : s.entities[i].type = entityType}

\* C20: once a round has been spawned (first start and every restart) the
\* store holds exactly one player, one killer, one exit door and NPC_COUNT
\* decoys, all active, and the three role indices refer to the entities of
\* the matching type; a frame that spawns no round leaves the number, the
\* types and the active flags of the entities as they were.
C20_StoreComposition ==
    /\ state.currentScreen = SCREEN_GAMEPLAY
         => /\ Cardinality(IndicesOfType(state, ENTITY_PLAYER)) = 1
            /\ Cardinality(IndicesOfType(state, ENTITY_KILLER)) = 1
            /\ Cardinality(IndicesOfType(state, ENTITY_EXIT_DOOR)) = 1
            /\ Cardinality(IndicesOfType(state, ENTITY_NPC)) = NPC_COUNT
            /\ Len(state.entities) = NPC_COUNT + 3
            /\ GetPlayer(state) \in IndicesOfType(state, ENTITY_PLAYER)
            /\ GetKiller(state) \in IndicesOfType(state, ENTITY_KILLER)
            /\ GetExitDoor(state) \in IndicesOfType(state, ENTITY_EXIT_DOOR)
            /\ \A i \in 1 .. Len(state.entities) : state.entities[i].active
    /\ frame.op \in {"active", "postgame", "restart"}
         => /\ Len(state.entities) = Len(frame.before.entities)
            /\ \A i \in 1 .. Len(state.entities) :
                 /\ state.entities[i].type = frame.before.entities[i].type
                 /\ state.entities[i].active = frame.before.entities[i].active

\* a round spawned by a restart, after a tick of it
C20_Witness ==
    /\ frame.op = "restart"
    /\ frame.deltaTime > 0
    /\ Len(state.entities) = NPC_COUNT + 3
    /\ state.entities[GetKiller(state)].type = ENTITY_KILLER

-----------------------------------------------------------------------------
(* Killer spawn *)

-----------------------------------------------------------------------------
(* Skipped killer update *)

\* a tick ran with the player or the killer missing or inactive
SkippedKillerUpdate ==
    /\ frame.op = "skipped"
    /\ \/ GetPlayer(frame.before) = nullptr
       \/ GetKiller(frame.before) = nullptr
       \/ ~frame.before.entities[GetPlayer(frame.before)].active
       \/ ~frame.before.entities[GetKiller(frame.before)].active

\* the tick left every killer of the store, and the AI state tag, last known
\* position and on-time as they were
KillerUntouched ==
    /\ \A i \in IndicesOfType(frame.before, ENTITY_KILLER) :
         /\ state.entities[i].pos = frame.before.entities[i].pos
         /\ state.entities[i].velocity = frame.before.entities[i].velocity
    /\ state.killerAI.state = frame.before.killerAI.state
    /\ state.killerAI.lastKnownPlayerPos
         = frame.before.killerAI.lastKnownPlayerPos
    /\ state.killerAI.flashlightOnTime = frame.before.killerAI.flashlightOnTime

-----------------------------------------------------------------------------
(* Restart gate *)

\* C23: while the jumpscare is active (which it is only after a loss) the
\* restart delay timer stays 0 and canRestart stays false, at the end of
\* every tick; and in every reachable state canRestart implies that the
\* round has ended, the jumpscare is inactive and the restart delay timer
\* has reached RESTART_DELAY.
C23_RestartGateFollowsJumpscare ==
    /\ state.jumpscareActive
         => /\ state.gameOver
            /\ state.restartDelayTimer = 0
            /\ ~state.canRestart
    /\ state.canRestart
         => /\ RoundEnded(state)
            /\ ~state.jumpscareActive
            /\ state.restartDelayTimer >= RESTART_DELAY

\* after a loss and the jumpscare, the restart delay built up over more
\* than one frame and opened the gate
C23_Witness ==
    /\ frame.op = "postgame"
    /\ state.gameOver
    /\ state.jumpscareTimer >= JUMPSCARE_DURATION
    /\ frame.before.restartDelayTimer > 0
    /\ ~frame.before.canRestart
    /\ state.canRestart

-----------------------------------------------------------------------------
(* Killer steering *)

\* the AI state in which the killer update of the tick just run chose its
\* target: the state the tick ended in, or Search when the killer arrived
\* and the tick took it on from Search to Normal
SteeringState ==
    IF state.killerAI.state = KILLER_STATE_NORMAL
       /\ frame.before.killerAI.state # KILLER_STATE_NORMAL
    THEN KILLER_STATE_SEARCH
    ELSE state.killerAI.state

\* currentSpeed of the tick just run, scaled by SpeedScale: the speed of the
\* AI state the tick ended in, at the time elapsed when the tick began
TickSpeed ==
    KillerCurrentSpeed([state EXCEPT !.timer = frame.before.timer])

\* the velocity of a killer that heads for target at the given speed from
\* where it was when the tick began
VelocityToward(target, speed) ==
    LET direction == DirectionTo(KillerPos(frame.before), target)
    IN Vec(RoundDiv(direction.x * speed, DirScale),
           RoundDiv(direction.y * speed, DirScale))

\* C24: in every tick of an active round the killer heads, from where it
\* was, for the player's position after that tick's player motion when it
\* chose its target in Hunt or Normal, and for the last known position when
\* it chose it in Search; the last known position is the same before and
\* after every tick that begins and ends in Search.
C24_TargetByState ==
    RoundTick
      => /\ KillerVelocity(state) =
              VelocityToward(IF SteeringState = KILLER_STATE_SEARCH
                             THEN state.killerAI.lastKnownPlayerPos
                             ELSE PlayerPos(state),
                             TickSpeed)
         /\ (frame.before.killerAI.state = KILLER_STATE_SEARCH
             /\ state.killerAI.state = KILLER_STATE_SEARCH)
              => state.killerAI.lastKnownPlayerPos
                   = frame.before.killerAI.lastKnownPlayerPos

\* a tick in Search in which the player walked past the killer: the killer
\* headed for the last known position, away from the player
C24_Witness ==
    /\ RoundTick
    /\ frame.before.killerAI.state = KILLER_STATE_SEARCH
    /\ state.killerAI.state = KILLER_STATE_SEARCH
    /\ PlayerPos(state) # PlayerPos(frame.before)
    /\ DirectionTo(KillerPos(frame.before), PlayerPos(state))
         # DirectionTo(KillerPos(frame.before),
                       state.killerAI.lastKnownPlayerPos)
    /\ KillerVelocity(state) # Vec(0, 0)

-----------------------------------------------------------------------------
(* Killer speed *)

\* KILLER_BASE_SPEED x 1.05^elapsed x multiplier, scaled by SpeedScale, with
\* multiplier 3 in Hunt, 1.5 in Search and 1 in Normal
SpeedByFormula(aiState, elapsed) ==
    LET multiplier ==
            CASE aiState = KILLER_STATE_HUNT -> 3 * MultScale
              [] aiState = KILLER_STATE_SEARCH -> (15 * MultScale) \div 10
              [] OTHER -> 1 * MultScale
        grown == RoundDiv(KILLER_BASE_SPEED * SpeedScale
                            * TimeSpeedMultiplier[elapsed], PowScale)
    IN RoundDiv(grown * multiplier, MultScale)

\* the time of the round that had elapsed when the tick just run began
ElapsedBefore == GAME_MAX_TIME - frame.before.timer

-----------------------------------------------------------------------------
(* Arena bounds *)

WithinArena(pos) ==
    /\ pos.x >= 0 /\ pos.x <= MAP_WIDTH
    /\ pos.y >= 0 /\ pos.y <= MAP_HEIGHT

\* where the velocity the entity ended the tick with takes it from pos in
\* the time of the tick just run (speed in pixels per second scaled by scale)
Integrated(pos, velocity, scale) ==
    Vec(pos.x + RoundDiv(velocity.x * frame.deltaTime, scale * UnitsPerSecond),
        pos.y + RoundDiv(velocity.y * frame.deltaTime, scale * UnitsPerSecond))

\* C26: from the spawn of a round on, after any sequence of ticks of any
\* duration >= 0 and any inputs, the player's and the killer's positions
\* are within [0, MAP_WIDTH] x [0, MAP_HEIGHT], bounds included.
C26_WithinArena ==
    state.currentScreen = SCREEN_GAMEPLAY
      => /\ WithinArena(PlayerPos(state))
         /\ WithinArena(KillerPos(state))

\* a tick whose motion would have taken the player and, behind the player,
\* the killer out of the arena left both on its edge
C26_Witness ==
    /\ RoundTick
    /\ ~WithinArena(Integrated(PlayerPos(frame.before),
                               Vec(state.entities[GetPlayer(state)].velocity.x
                                     * PLAYER_SPEED,
                                   state.entities[GetPlayer(state)].velocity.y
                                     * PLAYER_SPEED),
                               DirScale))
    /\ PlayerPos(state).x = 0
    /\ ~WithinArena(Integrated(KillerPos(frame.before), KillerVelocity(state),
                               SpeedScale))
    /\ KillerPos(state).x = 0

-----------------------------------------------------------------------------
(* Hunt and the flashlight *)

\* C27: at the end of every tick of an active round, across any number of
\* rounds and restarts, a killer in Hunt implies that the flashlight is on.
C27_HuntOnlyWhileOn ==
    RoundTick
      => (state.killerAI.state = KILLER_STATE_HUNT => state.flashlightOn)

\* C28: whenever the flashlight is on at the end of a tick of an active
\* round the killer is in Hunt and its flashlightOnTime equals
\* flashlightUsageTime; and flashlightOnTime changes only in ticks of an
\* active round that end with the killer in Hunt and the flashlight on.
C28_OnTimeFollowsUsage ==
    /\ (RoundTick /\ state.flashlightOn)
         => /\ state.killerAI.state = KILLER_STATE_HUNT
            /\ state.killerAI.flashlightOnTime = state.flashlightUsageTime
    /\ state.killerAI.flashlightOnTime # frame.before.killerAI.flashlightOnTime
         => /\ RoundTick
            /\ state.killerAI.state = KILLER_STATE_HUNT
            /\ state.flashlightOn

\* the second tick in a row with the flashlight on: both accumulators hold
\* the time of the two ticks
C28_Witness ==
    /\ RoundTick
    /\ frame.before.flashlightOn
    /\ state.flashlightOn
    /\ frame.deltaTime > 0
    /\ state.killerAI.flashlightOnTime > frame.deltaTime
    /\ state.killerAI.flashlightOnTime = state.flashlightUsageTime

-----------------------------------------------------------------------------
(* Flashlight fields *)

\* C29: at the end of every tick the flashlight is available exactly when
\* the cooldown is 0, it is on only when available, and the usage time is
\* at least 0 and strictly below FLASHLIGHT_MAX_DURATION, so that the radius
\* derived from it is within [FLASHLIGHT_MIN_RADIUS, FLASHLIGHT_RADIUS].
C29_FlashlightConsistent ==
    /\ state.flashlightAvailable <=> state.flashlightCooldownTime = 0
    /\ state.flashlightOn => state.flashlightAvailable
    /\ state.flashlightUsageTime >= 0
    /\ state.flashlightUsageTime < FLASHLIGHT_MAX_DURATION
    /\ GetFlashlightRadius(state) >= FLASHLIGHT_MIN_RADIUS
    /\ GetFlashlightRadius(state) <= FLASHLIGHT_RADIUS

\* the flashlight still on one tick short of the maximum duration, its
\* radius shrunk
C29_Witness ==
    /\ RoundTick
    /\ state.flashlightOn
    /\ frame.deltaTime > 0
    /\ state.flashlightUsageTime + frame.deltaTime >= FLASHLIGHT_MAX_DURATION
    /\ GetFlashlightRadius(state) < FLASHLIGHT_RADIUS

-----------------------------------------------------------------------------
(* Target and speed of one state *)

\* C30: in every tick of an active round the target the killer heads for
\* and the speed multiplier it moves with are those of the same AI state,
\* the one in which it chose its target: a killer heading for the last
\* known position moves with the Search multiplier, also in the tick in
\* which it arrives and Search ends.
C30_TargetAndSpeedOfOneState ==
    RoundTick
      => KillerVelocity(state) =
           VelocityToward(IF SteeringState = KILLER_STATE_SEARCH
                          THEN state.killerAI.lastKnownPlayerPos
                          ELSE PlayerPos(state),
                          SpeedByFormula(SteeringState, ElapsedBefore))

-----------------------------------------------------------------------------
(* Holding the flashlight button *)

\* the button was held in the tick just run, in which a running cooldown
\* reached zero
HeldAsCooldownEnded ==
    /\ RoundTick
    /\ frame.wantFlashlight
    /\ frame.before.flashlightCooldownTime > 0
    /\ CooldownElapsed

\* the button was held in the tick just run, in which the flashlight, on
\* before, reached its maximum duration
HeldToTheLimit ==
    /\ RoundTick
    /\ frame.wantFlashlight
    /\ frame.before.flashlightOn
    /\ frame.before.flashlightUsageTime + frame.deltaTime
         >= FLASHLIGHT_MAX_DURATION

\* what holding the button does at the maximum duration: the flashlight
\* goes off into the full cooldown and the off edge takes the killer out of
\* Hunt
HeldToTheLimitEndsHunt ==
    HeldToTheLimit
      => /\ ~state.flashlightOn
         /\ state.flashlightCooldownTime = FLASHLIGHT_COOLDOWN
         /\ FlashlightJustTurnedOff
         /\ state.killerAI.state # KILLER_STATE_HUNT

\* C31 as stated: with the button held, the tick in which the cooldown
\* reaches zero ends with the flashlight on, by a fresh flashlight-on edge
\* that puts the killer into Hunt; and held on to the maximum duration the
\* flashlight goes off again and the killer leaves Hunt.
C31_HeldButtonRelights ==
    /\ HeldToTheLimitEndsHunt
    /\ HeldAsCooldownEnded
         => /\ state.flashlightOn
            /\ FlashlightJustTurnedOn
            /\ state.killerAI.state = KILLER_STATE_HUNT

\* C31: with the button held, the tick in which the cooldown reaches zero
\* ends with the flashlight on, by a fresh flashlight-on edge that puts the
\* killer into Hunt, provided the tick is shorter than the maximum
\* duration; a tick that lasts the maximum duration or longer switches the
\* flashlight on and off again within the flashlight stage, so that it ends
\* the tick off with the full cooldown, without an edge, and the killer
\* does not enter Hunt.  Held on to the maximum duration the flashlight
\* goes off again and the killer leaves Hunt.
C31_HeldButtonRelightsInShortTick ==
    /\ HeldToTheLimitEndsHunt
    /\ HeldAsCooldownEnded
         => IF frame.deltaTime < FLASHLIGHT_MAX_DURATION
            THEN /\ state.flashlightOn
                 /\ FlashlightJustTurnedOn
                 /\ state.killerAI.state = KILLER_STATE_HUNT
                 /\ state.flashlightUsageTime = frame.deltaTime
            ELSE /\ ~state.flashlightOn
                 /\ ~state.killerAI.wasFlashlightOn
                 /\ state.flashlightCooldownTime = FLASHLIGHT_COOLDOWN
                 /\ state.killerAI.state = KILLER_STATE_HUNT
                      => frame.before.killerAI.state = KILLER_STATE_HUNT

\* a cooldown that had run down over earlier ticks reached zero with the
\* button held: the flashlight came back on and the killer, not in Hunt
\* before, entered Hunt
C31_Witness ==
    /\ HeldAsCooldownEnded
    /\ frame.deltaTime > 0
    /\ frame.before.flashlightCooldownTime < FLASHLIGHT_COOLDOWN
    /\ frame.before.killerAI.state # KILLER_STATE_HUNT
    /\ state.flashlightOn
    /\ state.killerAI.state = KILLER_STATE_HUNT

-----------------------------------------------------------------------------
(* Round end *)

\* C32: a round ends within GAME_MAX_TIME of tick time: while it is active
\* the survival timer is positive and equals GAME_MAX_TIME less the time of
\* its ticks so far, and a round whose ticks add up to GAME_MAX_TIME or more
\* has ended; the timer never increases from one frame of a round to the
\* next, and a tick of positive duration lowers it.
C32_RoundEndsInTime ==
    /\ (state.currentScreen = SCREEN_GAMEPLAY /\ ~RoundEnded(state))
         => /\ state.timer > 0
            /\ state.timer = GAME_MAX_TIME - frame.roundTime
    /\ (state.currentScreen = SCREEN_GAMEPLAY
        /\ frame.roundTime >= GAME_MAX_TIME)
         => RoundEnded(state)
    /\ frame.op \in {"active", "postgame"}
         => state.timer <= frame.before.timer
    /\ (RoundTick /\ frame.deltaTime > 0)
         => state.timer < frame.before.timer

\* the ticks of a round that nothing else ended added up to exactly
\* GAME_MAX_TIME: the round is won
C32_Witness ==
    /\ frame.op = "active"
    /\ frame.roundTime = GAME_MAX_TIME
    /\ frame.deltaTime > 0
    /\ state.timer = 0
    /\ state.gameWon
    /\ ~state.gameOver

-----------------------------------------------------------------------------
(* Restart becomes possible *)

\* C33: after a round has ended canRestart becomes true within
\* JUMPSCARE_DURATION + RESTART_DELAY of frame time: a running jumpscare
\* has lasted as long as the frames since the round ended and is over once
\* that reaches JUMPSCARE_DURATION; from then on (from the end of the round
\* when there was no jumpscare) the restart delay timer takes the whole
\* time of the frames, and canRestart is true once it has reached
\* RESTART_DELAY; and canRestart, once true, stays true in every frame
\* without a restart.
C33_RestartBecomesPossible ==
    /\ state.jumpscareActive
         => /\ state.jumpscareTimer = frame.waitTime
            /\ state.jumpscareTimer < JUMPSCARE_DURATION
    /\ (RoundEnded(state) /\ ~state.jumpscareActive /\ ~state.canRestart)
         => /\ state.restartDelayTimer < RESTART_DELAY
            /\ state.restartDelayTimer > frame.waitTime - JUMPSCARE_DURATION
            /\ ~state.gameOver => state.restartDelayTimer = frame.waitTime
    /\ (RoundEnded(state) /\ ~state.canRestart)
         => frame.waitTime < JUMPSCARE_DURATION + RESTART_DELAY
    /\ (frame.op = "postgame" /\ frame.before.canRestart)
         => state.canRestart

\* after a loss, a jumpscare and a restart delay that each took more than
\* one frame, canRestart became true
C33_Witness ==
    /\ frame.op = "postgame"
    /\ state.gameOver
    /\ ~frame.before.canRestart
    /\ state.canRestart
    /\ frame.deltaTime < JUMPSCARE_DURATION
    /\ frame.waitTime > JUMPSCARE_DURATION
    /\ frame.waitTime = state.jumpscareTimer + state.restartDelayTimer
                           - frame.deltaTime

====
